---- MODULE Spec2Model ----
(***************************************************************************)
(* quantsumore: the response normalizer (normalize_response), the request  *)
(* dispatcher (Request, APIClient._make_request) and the shared connection *)
(* client they mutate.                                                     *)
(*                                                                         *)
(* Python values are tagged pairs <<type, v>>:                             *)
(*   "num"  v an integer            "str"  v a sequence of characters      *)
(*   "list" v a sequence of values  "dict" v a sequence of <<key, value>>  *)
(*   "null" v = 0                   "bool" v a BOOLEAN                     *)
(*   "raise" v the name of the exception that left the function            *)
(* A dict keeps its entries in insertion order, as Python's dict does; a   *)
(* key is a sequence of characters.                                        *)
(***************************************************************************)
EXTENDS Integers, Sequences, FiniteSets, TLC

VARIABLES
    payload,      \* normalize_response: the response argument
    target_key,   \* normalize_response: the target_key argument
    onlyNormalize,\* normalize_response: the onlyNormalize flag
    result,       \* what normalize_response(payload, ..., keep_structure=False) gave
    resultKS,     \* what normalize_response(payload, ..., keep_structure=True) gave
    parsed1,      \* deep_parse_json(payload)
    parsed2,      \* deep_parse_json(parsed1)
    conn_headers, \* http_client: the connection's headers, by name
    base_url,     \* http_client: the connection's base URL
    pc,           \* per caller: where its call stands
    args,         \* per caller: the arguments of its call
    hdrs,         \* per caller: the headers_to_update mapping object, as it is now
    original_headers, \* per caller: the local original_headers
    idx,          \* per caller: position of the header loop it is in
    resp,         \* per caller: the local response
    ret,          \* per caller: what the call returned, or the exception that left it
    pre,          \* per caller: the connection's headers when the call began
    written,      \* per caller: the headers the call has passed to update_header
    fetches,      \* per caller: the fetches the call issued, each with the connection's state
    input_str,    \* key_from_mapping: the input_str argument
    mappings,     \* key_from_mapping: the mappings argument
    resolved,        \* what key_from_mapping(input_str, mappings, invert=False) gave
    resolvedInv,     \* what key_from_mapping(input_str, mappings, invert=True) gave
    resolvedAgain,   \* what key_from_mapping(K, mappings) gave for the result K
    user_agents,  \* UserAgentRandomizer: the user agents loaded from the configuration
    recent_selections, \* UserAgentRandomizer.recent_selections, oldest first
    selections,   \* every user agent get_random_user_agent returned, in call order
    ua_pc,        \* get_random_user_agent, step by step: where the call stands
    ua_choice,    \* get_random_user_agent, step by step: the local choice
    gui_pc,       \* InflationCalculatorApp: where the main thread stands
    mon_pc,       \* InflationCalculatorApp: where the monitor thread stands
    running,      \* InflationCalculatorApp.running
    previous_screen_width,  \* InflationCalculatorApp.previous_screen_width
    previous_screen_height, \* InflationCalculatorApp.previous_screen_height
    queue,        \* InflationCalculatorApp.queue, oldest first
    scheduled,    \* whether an after(100, process_queue) callback is pending
    screen,       \* the resolution of the screen, <<width, height>>
    changes,      \* how many times the resolution changed
    local,        \* monitor thread: its locals <<screen_width, screen_height>>
    puts,         \* every resolution the monitor thread enqueued, in order
    applied,      \* every resolution set_window_center was called with, in order
    fix_pc,       \* fix_versions.main: where it stands
    outdated,     \* what JsonFileHandler("config.json").is_outdated() gave
    futures,      \* fix_versions.main: the outcome of each submitted fetch
    altered       \* the replacements filePaths.alter applied to config.json, in order

normVars == <<payload, target_key, onlyNormalize, result, resultKS, parsed1, parsed2>>
connVars == <<conn_headers, base_url>>
callVars == <<pc, args, hdrs, original_headers, idx, resp, ret, pre, written, fetches>>
mapVars == <<input_str, mappings, resolved, resolvedInv, resolvedAgain>>
uaVars == <<user_agents, recent_selections, selections>>
loopVars == <<ua_pc, ua_choice>>
guiVars == <<gui_pc, mon_pc, running, previous_screen_width, previous_screen_height,
             queue, scheduled, screen, changes, local, puts, applied>>
fixVars == <<fix_pc, outdated, futures, altered>>
restVars == <<loopVars, guiVars, fixVars>>
toolVars == <<mapVars, uaVars, restVars>>
vars == <<normVars, connVars, callVars, toolVars>>

----------------------------------------------------------------------------
(* Values *)

Num(n) == <<"num", n>>
Str(s) == <<"str", s>>
List(xs) == <<"list", xs>>
Dict(ps) == <<"dict", ps>>
Bool(b) == <<"bool", b>>
Null == <<"null", 0>>
Raise(e) == <<"raise", e>>
NotCalled == <<"none", 0>>

TypeOf(x) == x[1]
ValOf(x) == x[2]

IsRaise(x) == TypeOf(x) = "raise"

\* key in d
HasKey(d, k) == \E i \in 1..Len(ValOf(d)) : ValOf(d)[i][1] = k

\* d[key]
GetItem(d, k) == ValOf(d)[CHOOSE i \in 1..Len(ValOf(d)) : ValOf(d)[i][1] = k][2]

\* d[key] = val on a dict under construction: a repeated key keeps its
\* position and takes the later value
SetItem(ps, k, val) ==
    IF \E i \in 1..Len(ps) : ps[i][1] = k
    THEN [i \in 1..Len(ps) |-> IF ps[i][1] = k THEN <<k, val>> ELSE ps[i]]
    ELSE Append(ps, <<k, val>>)

----------------------------------------------------------------------------
(* json.loads: a recursive-descent parse of a sequence of characters.      *)
(* A parse step returns [ok, val, next]: next is the index after the value.*)

Digits == <<"0", "1", "2", "3", "4", "5", "6", "7", "8", "9">>
IsDigit(c) == \E d \in 1..10 : Digits[d] = c
DigitVal(c) == (CHOOSE d \in 1..10 : Digits[d] = c) - 1

ParseFail == [ok |-> FALSE, val |-> Null, next |-> 0]
ParseOk(val, next) == [ok |-> TRUE, val |-> val, next |-> next]

RECURSIVE SkipWs(_, _)
SkipWs(s, i) == IF i <= Len(s) /\ s[i] = " " THEN SkipWs(s, i + 1) ELSE i

\* s[i..] starts with the characters of lit
StartsWith(s, i, lit) ==
    /\ i + Len(lit) - 1 <= Len(s)
    /\ \A j \in 1..Len(lit) : s[i + j - 1] = lit[j]

\* the body of a string literal, from the character after the opening quote
RECURSIVE ScanString(_, _, _)
ScanString(s, i, acc) ==
    IF i > Len(s) THEN ParseFail
    ELSE IF s[i] = "\"" THEN ParseOk(acc, i + 1)
    ELSE IF s[i] = "\\"
         THEN IF i + 1 <= Len(s) /\ s[i + 1] \in {"\"", "\\", "/"}
              THEN ScanString(s, i + 2, Append(acc, s[i + 1]))
              ELSE ParseFail
    ELSE ScanString(s, i + 1, Append(acc, s[i]))

\* the digits of an integer, from its second digit on
RECURSIVE ScanDigits(_, _, _)
ScanDigits(s, i, acc) ==
    IF i <= Len(s) /\ IsDigit(s[i])
    THEN ScanDigits(s, i + 1, acc * 10 + DigitVal(s[i]))
    ELSE ParseOk(Num(acc), i)

\* JSON's int: 0, or a non-zero digit followed by digits
ScanNumber(s, i) ==
    IF s[i] = "0" THEN ParseOk(Num(0), i + 1)
    ELSE ScanDigits(s, i + 1, DigitVal(s[i]))

RECURSIVE ParseValue(_, _)
RECURSIVE ParseElements(_, _, _)
RECURSIVE ParseMembers(_, _, _)

\* the elements of an array, from the first element
ParseElements(s, i, acc) ==
    LET e == ParseValue(s, i)
        j == SkipWs(s, e.next)
    IN  IF ~e.ok \/ j > Len(s) THEN ParseFail
        ELSE IF s[j] = "]" THEN ParseOk(List(Append(acc, e.val)), j + 1)
        ELSE IF s[j] = "," THEN ParseElements(s, SkipWs(s, j + 1), Append(acc, e.val))
        ELSE ParseFail

\* the members of an object, from the first key
ParseMembers(s, i, acc) ==
    IF i > Len(s) \/ s[i] # "\"" THEN ParseFail
    ELSE
    LET key == ScanString(s, i + 1, <<>>)
        c == SkipWs(s, key.next)
    IN  IF ~key.ok \/ c > Len(s) \/ s[c] # ":" THEN ParseFail
        ELSE
        LET e == ParseValue(s, SkipWs(s, c + 1))
            j == SkipWs(s, e.next)
        IN  IF ~e.ok \/ j > Len(s) THEN ParseFail
            ELSE IF s[j] = "}"
                 THEN ParseOk(Dict(SetItem(acc, key.val, e.val)), j + 1)
            ELSE IF s[j] = ","
                 THEN ParseMembers(s, SkipWs(s, j + 1), SetItem(acc, key.val, e.val))
            ELSE ParseFail

ParseValue(s, i) ==
    IF i > Len(s) THEN ParseFail
    ELSE IF s[i] = "\"" THEN
        LET r == ScanString(s, i + 1, <<>>)
        IN  IF r.ok THEN ParseOk(Str(r.val), r.next) ELSE ParseFail
    ELSE IF s[i] = "[" THEN
        LET j == SkipWs(s, i + 1)
        IN  IF j <= Len(s) /\ s[j] = "]" THEN ParseOk(List(<<>>), j + 1)
            ELSE ParseElements(s, j, <<>>)
    ELSE IF s[i] = "{" THEN
        LET j == SkipWs(s, i + 1)
        IN  IF j <= Len(s) /\ s[j] = "}" THEN ParseOk(Dict(<<>>), j + 1)
            ELSE ParseMembers(s, j, <<>>)
    ELSE IF IsDigit(s[i]) THEN ScanNumber(s, i)
    ELSE IF StartsWith(s, i, <<"t", "r", "u", "e">>) THEN ParseOk(Bool(TRUE), i + 4)
    ELSE IF StartsWith(s, i, <<"f", "a", "l", "s", "e">>) THEN ParseOk(Bool(FALSE), i + 5)
    ELSE IF StartsWith(s, i, <<"n", "u", "l", "l">>) THEN ParseOk(Null, i + 4)
    ELSE ParseFail

\* json.loads(s): ok = FALSE stands for json.JSONDecodeError
JsonLoads(s) ==
    LET r == ParseValue(s, SkipWs(s, 1))
    IN  IF r.ok /\ SkipWs(s, r.next) = Len(s) + 1 THEN r ELSE ParseFail

----------------------------------------------------------------------------
(* normalize_response and its three inner functions *)

RECURSIVE normalize(_, _, _, _)
RECURSIVE normalizeEach(_, _, _, _)

\* the two for loops of normalize: the items of xs in order, one results list
normalizeEach(xs, k, keep_structure, results) ==
    IF xs = <<>> THEN results
    ELSE normalizeEach(Tail(xs), k, keep_structure,
                       normalize(Head(xs), k, keep_structure, results))

\* normalize recording a mapping's own match after the matches inside its values
normalize_ChildrenFirst(response, k, keep_structure, results) ==
    IF TypeOf(response) = "dict" THEN
        LET below == normalizeEach([i \in 1..Len(ValOf(response)) |-> ValOf(response)[i][2]],
                                   k, keep_structure, results)
        IN  IF HasKey(response, k)
            THEN Append(below,
                        IF keep_structure
                        THEN Dict(<< <<k, GetItem(response, k)>> >>)
                        ELSE GetItem(response, k))
            ELSE below
    ELSE IF TypeOf(response) = "list" THEN
        normalizeEach(ValOf(response), k, keep_structure, results)
    ELSE IF TypeOf(response) = "str" THEN
        LET parsed_response == JsonLoads(ValOf(response))
        IN  IF parsed_response.ok
            THEN normalize(parsed_response.val, k, keep_structure, results)
            ELSE results
    ELSE results

\* normalize keeping, with keep_structure, the whole mapping the key was found in
normalize_KeepWholeMapping(response, k, keep_structure, results) ==
    IF TypeOf(response) = "dict" THEN
        LET found ==
                IF HasKey(response, k)
                THEN Append(results, IF keep_structure THEN response ELSE GetItem(response, k))
                ELSE results
        IN  normalizeEach([i \in 1..Len(ValOf(response)) |-> ValOf(response)[i][2]],
                          k, keep_structure, found)
    ELSE IF TypeOf(response) = "list" THEN
        normalizeEach(ValOf(response), k, keep_structure, results)
    ELSE IF TypeOf(response) = "str" THEN
        LET parsed_response == JsonLoads(ValOf(response))
        IN  IF parsed_response.ok
            THEN normalize(parsed_response.val, k, keep_structure, results)
            ELSE results
    ELSE results

\* normalize taking a string that does not decode for a match
normalize_MatchesUndecodable(response, k, keep_structure, results) ==
    IF TypeOf(response) = "dict" THEN
        LET found ==
                IF HasKey(response, k)
                THEN Append(results,
                            IF keep_structure
                            THEN Dict(<< <<k, GetItem(response, k)>> >>)
                            ELSE GetItem(response, k))
                ELSE results
        IN  normalizeEach([i \in 1..Len(ValOf(response)) |-> ValOf(response)[i][2]],
                          k, keep_structure, found)
    ELSE IF TypeOf(response) = "list" THEN
        normalizeEach(ValOf(response), k, keep_structure, results)
    ELSE IF TypeOf(response) = "str" THEN
        LET parsed_response == JsonLoads(ValOf(response))
        IN  IF parsed_response.ok
            THEN normalize(parsed_response.val, k, keep_structure, results)
            ELSE Append(results, response)
    ELSE results

\* normalize, lines 53-73
normalize(response, k, keep_structure, results) ==
    IF TypeOf(response) = "dict" THEN
        LET found ==
                IF HasKey(response, k)
                THEN Append(results,
                            IF keep_structure
                            THEN Dict(<< <<k, GetItem(response, k)>> >>)
                            ELSE GetItem(response, k))
                ELSE results
        IN  normalizeEach([i \in 1..Len(ValOf(response)) |-> ValOf(response)[i][2]],
                          k, keep_structure, found)
    ELSE IF TypeOf(response) = "list" THEN
        normalizeEach(ValOf(response), k, keep_structure, results)
    ELSE IF TypeOf(response) = "str" THEN
        LET parsed_response == JsonLoads(ValOf(response))
        IN  IF parsed_response.ok
            THEN normalize(parsed_response.val, k, keep_structure, results)
            ELSE results
    ELSE results

RECURSIVE deep_parse_json(_)

\* deep_parse_json returning what json.loads gave without parsing it further
deep_parse_json_OneLevel(input_data) ==
    IF TypeOf(input_data) = "str" THEN
        LET parsed_data == JsonLoads(ValOf(input_data))
        IN  IF parsed_data.ok THEN parsed_data.val ELSE input_data
    ELSE IF TypeOf(input_data) = "dict" THEN
        Dict([i \in 1..Len(ValOf(input_data)) |->
                <<ValOf(input_data)[i][1], deep_parse_json(ValOf(input_data)[i][2])>>])
    ELSE IF TypeOf(input_data) = "list" THEN
        List([i \in 1..Len(ValOf(input_data)) |-> deep_parse_json(ValOf(input_data)[i])])
    ELSE input_data

\* deep_parse_json returning None for a string json.loads rejects
deep_parse_json_DropsUndecodable(input_data) ==
    IF TypeOf(input_data) = "str" THEN
        LET parsed_data == JsonLoads(ValOf(input_data))
        IN  IF parsed_data.ok THEN deep_parse_json(parsed_data.val) ELSE Null
    ELSE IF TypeOf(input_data) = "dict" THEN
        Dict([i \in 1..Len(ValOf(input_data)) |->
                <<ValOf(input_data)[i][1], deep_parse_json(ValOf(input_data)[i][2])>>])
    ELSE IF TypeOf(input_data) = "list" THEN
        List([i \in 1..Len(ValOf(input_data)) |-> deep_parse_json(ValOf(input_data)[i])])
    ELSE input_data

deep_parse_json(input_data) ==
    IF TypeOf(input_data) = "str" THEN
        LET parsed_data == JsonLoads(ValOf(input_data))
        IN  IF parsed_data.ok THEN deep_parse_json(parsed_data.val) ELSE input_data
    ELSE IF TypeOf(input_data) = "dict" THEN
        Dict([i \in 1..Len(ValOf(input_data)) |->
                <<ValOf(input_data)[i][1], deep_parse_json(ValOf(input_data)[i][2])>>])
    ELSE IF TypeOf(input_data) = "list" THEN
        List([i \in 1..Len(ValOf(input_data)) |-> deep_parse_json(ValOf(input_data)[i])])
    ELSE input_data

\* result[0] of a list: IndexError when the list is empty
process_result(res, multiple) ==
    IF multiple THEN List([i \in 1..Len(ValOf(res)) |-> deep_parse_json(ValOf(res)[i])])
    ELSE IF TypeOf(res) = "list" THEN
        IF Len(ValOf(res)) = 0 THEN Raise("IndexError") ELSE deep_parse_json(ValOf(res)[1])
    ELSE deep_parse_json(res)

\* normalize_response taking "multiple" to mean more than one match
normalize_response_MultiIfMany(response, k, only, keep_structure) ==
    IF only THEN deep_parse_json(response)
    ELSE
    LET data == normalize(response, k, keep_structure, <<>>)
        multi == Len(data) > 1
        res == IF Len(data) = 1 THEN data[1] ELSE List(data)
    IN  process_result(res, multi)

\* normalize_response extracting even when onlyNormalize is set
normalize_response_IgnoresOnly(response, k, only, keep_structure) ==
    LET data == normalize(response, k, keep_structure, <<>>)
        multi == Len(data) # 1
        res == IF Len(data) = 1 THEN data[1] ELSE List(data)
    IN  process_result(res, multi)

normalize_response(response, k, only, keep_structure) ==
    IF only THEN deep_parse_json(response)
    ELSE
    LET data == normalize(response, k, keep_structure, <<>>)
        multi == Len(data) # 1
        res == IF Len(data) = 1 THEN data[1] ELSE List(data)
    IN  process_result(res, multi)
----------------------------------------------------------------------------
(* json.dumps, with its default separators: how an upstream source puts a  *)
(* structure inside a string.  Used to build the payloads.                 *)

RECURSIVE NumChars(_)
NumChars(n) == IF n < 10 THEN <<Digits[n + 1]>> ELSE Append(NumChars(n \div 10), Digits[(n % 10) + 1])

RECURSIVE Escape(_)
Escape(s) ==
    IF s = <<>> THEN <<>>
    ELSE (IF Head(s) \in {"\"", "\\"} THEN <<"\\", Head(s)>> ELSE <<Head(s)>>) \o Escape(Tail(s))

Quote(s) == <<"\"">> \o Escape(s) \o <<"\"">>

RECURSIVE JsonDumps(_)
RECURSIVE DumpItems(_, _)
RECURSIVE DumpMembers(_, _)

DumpItems(xs, i) ==
    IF i > Len(xs) THEN <<>>
    ELSE (IF i > 1 THEN <<",", " ">> ELSE <<>>) \o JsonDumps(xs[i]) \o DumpItems(xs, i + 1)

DumpMembers(ps, i) ==
    IF i > Len(ps) THEN <<>>
    ELSE (IF i > 1 THEN <<",", " ">> ELSE <<>>)
         \o Quote(ps[i][1]) \o <<":", " ">> \o JsonDumps(ps[i][2]) \o DumpMembers(ps, i + 1)

JsonDumps(x) ==
    IF TypeOf(x) = "num" THEN NumChars(ValOf(x))
    ELSE IF TypeOf(x) = "str" THEN Quote(ValOf(x))
    ELSE IF TypeOf(x) = "list" THEN <<"[">> \o DumpItems(ValOf(x), 1) \o <<"]">>
    ELSE IF TypeOf(x) = "dict" THEN <<"{">> \o DumpMembers(ValOf(x), 1) \o <<"}">>
    ELSE IF TypeOf(x) = "bool" THEN (IF ValOf(x) THEN <<"t", "r", "u", "e">> ELSE <<"f", "a", "l", "s", "e">>)
    ELSE <<"n", "u", "l", "l">>

\* x serialized n times: a string holding a string ... holding x
RECURSIVE Encoded(_, _)
Encoded(x, n) == IF n = 0 THEN x ELSE Str(JsonDumps(Encoded(x, n - 1)))
----------------------------------------------------------------------------
(* The payloads the calls are made on *)

MaxLen == 2     \* longest list of atoms
MaxEnc == 2     \* most nested serializations of one value

K == <<"r">>
A == <<"a">>
Keys == {K, A}

Entry(key, x) == Dict(<< <<key, x>> >>)

Leafs == {Num(5), Num(7), Str(<<"x">>), Null}
Lists == {List(xs) : xs \in UNION {[1..n -> {Num(5), Str(<<"x">>)}] : n \in 0..MaxLen}}
Singles == {Entry(key, x) : key \in Keys, x \in {Num(7), Str(<<"x">>), List(<<Num(5), Num(7)>>)}}

\* strings json.loads rejects: cut short, a leading zero, a trailing comma
Broken == {Str(<<"{", "\"", "r", "\"">>), Str(<<"0", "5">>), Str(<<"[", "5", ",", "]">>)}

\* serialized once or more, and one string with blanks around the number
Serialized ==
    {Encoded(x, n) : n \in 1..MaxEnc,
                     x \in {Num(5), Str(<<"x">>), List(<<>>), List(<<Num(5)>>),
                            Entry(K, Num(7)), Entry(K, Str(<<"x">>))}}
    \cup {Str(<<" ", "1", "2", " ">>)}

Inner == Leafs \cup Lists \cup Singles \cup {Dict(<<>>)} \cup Broken \cup Serialized

Mid == {Num(5), Str(<<"x">>), List(<<>>), Entry(K, Num(7)), Entry(A, Str(<<"5">>)),
        Encoded(Entry(K, Num(5)), 1), Encoded(Entry(K, Str(<<"x">>)), MaxEnc),
        Str(<<"0", "5">>)}

Payloads ==
    Inner
    \cup {Entry(key, x) : key \in Keys, x \in Inner}
    \cup {Dict(<< <<kk[1], x>>, <<kk[2], y>> >>) : kk \in {<<K, A>>, <<A, K>>}, x \in Inner, y \in Mid}
    \cup {List(<<x, y>>) : x \in Mid, y \in Inner}
    \cup {List(<<Entry(K, x), Entry(K, y), Entry(A, z)>>) : x \in Mid, y \in Mid, z \in {Num(5), Entry(K, Null)}}
    \cup {Encoded(Entry(A, Dict(<< <<K, x>>, <<A, List(<<Entry(K, y)>>)>> >>)), n) :
            x \in {Num(5), List(<<>>), Entry(K, Str(<<"5">>))}, y \in {Num(7), Str(<<"5">>)}, n \in 0..1}

----------------------------------------------------------------------------
(* http_client, the shared connection (_http/connection.py): its headers   *)
(* and base URL, and the fetches.  A header holds a string; NoHeader is    *)
(* what get_headers gives for a header that is not set.                    *)

NoHeader == "None"
HeaderNames == {"Accept", "User-Agent"}

\* http_client.get_headers(header)
get_headers(headers, header) == headers[header]

\* http_client.update_header(header, value)
update_header(headers, header, value) == [headers EXCEPT ![header] = value]

U0 == <<"u", "0">>
U1 == <<"u", "1">>
U2 == <<"u", "2">>
U3 == <<"u", "3">>

\* what a fetched page can hold under its "response" key
Contents ==
    {Str(<<"x">>), List(<<>>), List(<<Num(5), Num(7)>>), Entry(A, Str(<<"5">>)),
     Encoded(Entry(K, Num(7)), 1)}

\* what make_request returns for one URL with return_url: {url: {"response": content}}
Page(u, content) == Entry(u, Entry(K, content))

----------------------------------------------------------------------------
(* Request (response_utils.py) and APIClient._make_request (CryptoAPI.py), *)
(* one step at a time.  A caller's pc is                                   *)
(*   "idle"      no call in progress                                       *)
(*   "capture"   at original_headers[header] = get_headers(header)         *)
(*   "update"    at update_header(header, value)                           *)
(*   "fetch"     at make_request / make_requests_concurrently              *)
(*   "restore"   at update_header(header, original_value)                  *)
(*   "finish"    at the statements after the restore loop                  *)
(*   "returned"  the call returned ret                                     *)
(*   "raised"    an exception left the call                                *)

Callers == {1, 2}

\* the headers_to_update arguments: None, or a mapping in insertion order
NoneArg == [given |-> FALSE, items |-> <<>>]
Given(items) == [given |-> TRUE, items |-> items]
HeaderArgs ==
    {NoneArg, Given(<<>>), Given(<< <<"Accept", "text/plain">> >>),
     Given(<< <<"User-Agent", "ua1">>, <<"Accept", "text/plain">> >>)}

\* the url arguments: a string, or a list
UrlArgs ==
    {[isList |-> FALSE, urls |-> <<U1>>], [isList |-> TRUE, urls |-> <<U2>>],
     [isList |-> TRUE, urls |-> <<U1, U2>>]}

RequestArgs ==
    [fn : {"Request"}, url : UrlArgs, headers_to_update : HeaderArgs,
     response_format : {"html", "json"}, target_response_key : {K},
     onlyParse : BOOLEAN, no_content : BOOLEAN]

MakeRequestArgs ==
    [fn : {"_make_request"}, url : {[isList |-> FALSE, urls |-> <<U1>>]},
     headers_to_update : HeaderArgs,
     response_format : {"html"}, target_response_key : {K},
     onlyParse : {FALSE}, no_content : {FALSE}]

NoLocals == [c \in Callers |-> <<>>]

\* what the per-caller variables hold while the caller is idle
NoArgs == CHOOSE a \in MakeRequestArgs : ~a.headers_to_update.given
NoHeaders == [h \in HeaderNames |-> NoHeader]

\* a 'json' Request that leaves an Accept it was given as it is
HeadersAfterFormat_KeepsGiven(a) ==
    LET given == IF a.headers_to_update.given THEN a.headers_to_update.items ELSE <<>>
    IN  IF a.fn = "Request" /\ a.response_format = "json" /\ ~HasKey(Dict(given), "Accept")
        THEN SetItem(given, "Accept", "application/json")
        ELSE given

\* Request, lines 299-305: the mapping the loops run over.  None becomes a
\* new empty mapping; 'json' stores Accept in the mapping it was given.
HeadersAfterFormat(a) ==
    LET given == IF a.headers_to_update.given THEN a.headers_to_update.items ELSE <<>>
    IN  IF a.fn = "Request" /\ a.response_format = "json"
        THEN SetItem(given, "Accept", "application/json")
        ELSE given

\* every list of URLs taken for a batch
concurrent_AnyList(a) == a.url.isList

\* Request, line 299
concurrent(a) == a.url.isList /\ Len(a.url.urls) > 1

\* the call begins: Request lines 299-306, _make_request lines 15-17
Begin(c, a) ==
    /\ pc[c] = "idle"
    /\ args' = [args EXCEPT ![c] = a]
    /\ hdrs' = [hdrs EXCEPT ![c] = HeadersAfterFormat(a)]
    /\ original_headers' = [original_headers EXCEPT ![c] = <<>>]
    /\ idx' = [idx EXCEPT ![c] = 1]
    /\ pre' = [pre EXCEPT ![c] = conn_headers]
    /\ written' = [written EXCEPT ![c] = {}]
    /\ fetches' = [fetches EXCEPT ![c] = <<>>]
    /\ resp' = [resp EXCEPT ![c] = Null]
    /\ ret' = [ret EXCEPT ![c] = NotCalled]
    /\ base_url' = IF a.fn = "_make_request" THEN a.url.urls[1] ELSE base_url
    /\ pc' = [pc EXCEPT ![c] = IF HeadersAfterFormat(a) = <<>> THEN "fetch" ELSE "capture"]
    /\ UNCHANGED <<toolVars, conn_headers, normVars>>

\* the capture reading the header after it was overridden
Capture_AfterUpdate(c) ==
    /\ pc[c] = "capture"
    /\ LET header == hdrs[c][idx[c]][1]
       IN  original_headers' =
             [original_headers EXCEPT ![c] = SetItem(@, header, hdrs[c][idx[c]][2])]
    /\ pc' = [pc EXCEPT ![c] = "update"]
    /\ UNCHANGED <<toolVars, normVars, connVars, args, hdrs, idx, resp, ret, pre, written, fetches>>

\* original_headers[header] = http_client.get_headers(header)
Capture(c) ==
    /\ pc[c] = "capture"
    /\ LET header == hdrs[c][idx[c]][1]
       IN  original_headers' =
             [original_headers EXCEPT
                ![c] = SetItem(@, header, get_headers(conn_headers, header))]
    /\ pc' = [pc EXCEPT ![c] = "update"]
    /\ UNCHANGED <<toolVars, normVars, connVars, args, hdrs, idx, resp, ret, pre, written, fetches>>

\* an update that waits while another call is between its fetch and the end
\* of its restores
Update_Exclusive(c) ==
    /\ pc[c] = "update"
    /\ \A d \in Callers \ {c} : pc[d] \notin {"fetch", "restore"}
    /\ LET header == hdrs[c][idx[c]][1]
           value == hdrs[c][idx[c]][2]
       IN  /\ conn_headers' = update_header(conn_headers, header, value)
           /\ written' = [written EXCEPT ![c] = @ \cup {header}]
    /\ idx' = [idx EXCEPT ![c] = IF @ < Len(hdrs[c]) THEN @ + 1 ELSE 1]
    /\ pc' = [pc EXCEPT ![c] = IF idx[c] < Len(hdrs[c]) THEN "capture" ELSE "fetch"]
    /\ UNCHANGED <<toolVars, normVars, base_url, args, hdrs, original_headers, resp, ret, pre, fetches>>

\* http_client.update_header(header, value), and on to the next header
Update(c) ==
    /\ pc[c] = "update"
    /\ LET header == hdrs[c][idx[c]][1]
           value == hdrs[c][idx[c]][2]
       IN  /\ conn_headers' = update_header(conn_headers, header, value)
           /\ written' = [written EXCEPT ![c] = @ \cup {header}]
    /\ idx' = [idx EXCEPT ![c] = IF @ < Len(hdrs[c]) THEN @ + 1 ELSE 1]
    /\ pc' = [pc EXCEPT ![c] = IF idx[c] < Len(hdrs[c]) THEN "capture" ELSE "fetch"]
    /\ UNCHANGED <<toolVars, normVars, base_url, args, hdrs, original_headers, resp, ret, pre, fetches>>

\* the connection's state a fetch is issued under
FetchRecord(kind, url) == [kind |-> kind, headers |-> conn_headers, url |-> url]

AfterFetch(c) == IF original_headers[c] = <<>> THEN "finish" ELSE "restore"

\* http_client.make_request(...): the page at the connection's base URL;
\* Request line 317 sets the base URL first when url is a string.  Request
\* passes return_url and gets the page under its URL; _make_request does
\* not, and reads response["response"]
FetchOne(c, content) ==
    /\ pc[c] = "fetch"
    /\ ~concurrent(args[c])
    /\ LET url == IF args[c].fn = "Request" /\ ~args[c].url.isList
                  THEN args[c].url.urls[1] ELSE base_url
       IN  /\ base_url' = url
           /\ resp' = [resp EXCEPT ![c] = IF args[c].fn = "Request"
                                          THEN Page(url, content)
                                          ELSE Entry(K, content)]
           /\ fetches' = [fetches EXCEPT ![c] = Append(@, FetchRecord("make_request", url))]
    /\ pc' = [pc EXCEPT ![c] = AfterFetch(c)]
    /\ UNCHANGED <<toolVars, normVars, conn_headers, args, hdrs, original_headers, idx, ret, pre, written>>

\* http_client.make_requests_concurrently(url, ...): one page per URL, each
\* under its URL; contents[i] is what urls[i] serves, and the pages come
\* back in the order the fetches completed, order[j] being the URL that
\* completed j-th
FetchMany(c, contents, order) ==
    /\ pc[c] = "fetch"
    /\ concurrent(args[c])
    /\ resp' = [resp EXCEPT
                      ![c] = List([j \in 1..Len(args[c].url.urls) |->
                                     Page(args[c].url.urls[order[j]], contents[order[j]])])]
    /\ fetches' = [fetches EXCEPT
                     ![c] = Append(@, FetchRecord("make_requests_concurrently", args[c].url.urls))]
    /\ pc' = [pc EXCEPT ![c] = AfterFetch(c)]
    /\ UNCHANGED <<toolVars, normVars, connVars, args, hdrs, original_headers, idx, ret, pre, written>>

\* the fetch raises (an HTTP error): nothing catches it, so it leaves the
\* call from the fetch statement
FetchRaises(c) ==
    /\ pc[c] = "fetch"
    /\ base_url' = IF args[c].fn = "Request" /\ ~args[c].url.isList /\ ~concurrent(args[c])
                   THEN args[c].url.urls[1] ELSE base_url
    /\ ret' = [ret EXCEPT ![c] = Raise("HTTPError")]
    /\ pc' = [pc EXCEPT ![c] = "raised"]
    /\ UNCHANGED <<toolVars, normVars, conn_headers, args, hdrs, original_headers, idx, resp, pre, written, fetches>>

\* http_client.update_header(header, original_value), and on to the next
Restore(c) ==
    /\ pc[c] = "restore"
    /\ LET header == original_headers[c][idx[c]][1]
           original_value == original_headers[c][idx[c]][2]
       IN  /\ conn_headers' = update_header(conn_headers, header, original_value)
           /\ written' = [written EXCEPT ![c] = @ \cup {header}]
    /\ idx' = [idx EXCEPT ![c] = IF @ < Len(original_headers[c]) THEN @ + 1 ELSE 1]
    /\ pc' = [pc EXCEPT ![c] = IF idx[c] < Len(original_headers[c]) THEN "restore" ELSE "finish"]
    /\ UNCHANGED <<toolVars, normVars, base_url, args, hdrs, original_headers, resp, ret, pre, fetches>>

\* Request without the try/except around normalize_response
RequestReturn_NoExcept(response, a) ==
    normalize_response(response, a.target_response_key, a.onlyParse, a.no_content)

\* Request lines 325-328: the normalized response, or the response itself
\* when normalize_response raised
RequestReturn(response, a) ==
    LET normalized == normalize_response(response, a.target_response_key, a.onlyParse, a.no_content)
    IN  IF IsRaise(normalized) THEN response ELSE normalized

\* bool(x) of a value
Truthy(x) ==
    IF TypeOf(x) \in {"str", "list", "dict"} THEN Len(ValOf(x)) > 0
    ELSE IF TypeOf(x) = "num" THEN ValOf(x) # 0
    ELSE IF TypeOf(x) = "bool" THEN ValOf(x)
    ELSE FALSE

\* _make_request lines 24-25: response["response"], None when it is falsy
MakeRequestReturn(response) ==
    IF TypeOf(response) # "dict" THEN Raise("TypeError")
    ELSE IF ~HasKey(response, K) THEN Raise("KeyError")
    ELSE IF Truthy(GetItem(response, K)) THEN GetItem(response, K) ELSE Null

\* the statements after the restore loop
Finish(c) ==
    /\ pc[c] = "finish"
    /\ LET r == IF args[c].fn = "Request"
                THEN RequestReturn(resp[c], args[c])
                ELSE MakeRequestReturn(resp[c])
       IN  /\ ret' = [ret EXCEPT ![c] = r]
           /\ pc' = [pc EXCEPT ![c] = IF IsRaise(r) THEN "raised" ELSE "returned"]
    /\ UNCHANGED <<toolVars, normVars, connVars, args, hdrs, original_headers, idx, resp, pre, written, fetches>>

\* the caller takes the outcome; the call's locals are gone and the caller
\* is free to call again
Leave(c) ==
    /\ pc[c] \in {"returned", "raised"}
    /\ pc' = [pc EXCEPT ![c] = "idle"]
    /\ args' = [args EXCEPT ![c] = NoArgs]
    /\ hdrs' = [hdrs EXCEPT ![c] = <<>>]
    /\ original_headers' = [original_headers EXCEPT ![c] = <<>>]
    /\ idx' = [idx EXCEPT ![c] = 1]
    /\ resp' = [resp EXCEPT ![c] = Null]
    /\ ret' = [ret EXCEPT ![c] = NotCalled]
    /\ pre' = [pre EXCEPT ![c] = NoHeaders]
    /\ written' = [written EXCEPT ![c] = {}]
    /\ fetches' = [fetches EXCEPT ![c] = <<>>]
    /\ UNCHANGED <<toolVars, normVars, connVars>>

----------------------------------------------------------------------------
(* key_from_mapping (response_utils.py).  A label is a sequence of         *)
(* characters; mappings is a dict from a canonical key to a display-name   *)
(* (a str) or to a list of synonyms.                                        *)

\* str.lower(), on the letters the labels are written in
lowerChar(ch) == IF ch = "A" THEN "a" ELSE IF ch = "B" THEN "b" ELSE IF ch = "X" THEN "x" ELSE ch
lower(s) == [i \in 1..Len(s) |-> lowerChar(s[i])]

\* str.strip()
RECURSIVE lstrip(_)
lstrip(s) == IF s # <<>> /\ Head(s) = " " THEN lstrip(Tail(s)) ELSE s
RECURSIVE rstrip(_)
rstrip(s) == IF s # <<>> /\ s[Len(s)] = " " THEN rstrip(SubSeq(s, 1, Len(s) - 1)) ELSE s
strip(s) == rstrip(lstrip(s))

\* {key.lower(): key for key in mappings}, over the first n entries
RECURSIVE lower_case_mappings_upto(_, _)
lower_case_mappings_upto(ps, n) ==
    IF n = 0 THEN <<>>
    ELSE SetItem(lower_case_mappings_upto(ps, n - 1), lower(ps[n][1]), ps[n][1])

\* a dict of the lowered keys that keeps the first key of each
lower_case_mappings_KeepFirst(ps) ==
    LET last == lower_case_mappings_upto(ps, Len(ps))
        first(low) == CHOOSE i \in 1..Len(ps) :
                        /\ lower(ps[i][1]) = low
                        /\ \A j \in 1..(i - 1) : lower(ps[j][1]) # low
    IN  [i \in 1..Len(last) |-> <<last[i][1], ps[first(last[i][1])][1]>>]

lower_case_mappings(ps) == lower_case_mappings_upto(ps, Len(ps))

\* for synonym in value: inverse_mappings[synonym.lower()] = key, over the
\* first n synonyms
RECURSIVE addSynonyms(_, _, _, _)
addSynonyms(inv, syns, key, n) ==
    IF n = 0 THEN inv
    ELSE SetItem(addSynonyms(inv, syns, key, n - 1), lower(ValOf(syns[n])), key)

\* an inverse mapping that keeps the key that recorded a synonym first
RECURSIVE inverse_mappings_KeepFirst(_, _)
inverse_mappings_KeepFirst(ps, n) ==
    IF n = 0 THEN <<>>
    ELSE LET value == ps[n][2]
             syns == IF TypeOf(value) = "list" THEN ValOf(value) ELSE <<value>>
             later == addSynonyms(<<>>, syns, ps[n][1], Len(syns))
             earlier == inverse_mappings_KeepFirst(ps, n - 1)
         IN  earlier \o SelectSeq(later, LAMBDA e : ~HasKey(Dict(earlier), e[1]))

\* lines 245-251, over the first n entries of mappings
RECURSIVE inverse_mappings(_, _)
inverse_mappings(ps, n) ==
    IF n = 0 THEN <<>>
    ELSE LET value == ps[n][2]
         IN  IF TypeOf(value) = "list"
             THEN addSynonyms(inverse_mappings(ps, n - 1), ValOf(value), ps[n][1], Len(ValOf(value)))
             ELSE SetItem(inverse_mappings(ps, n - 1), lower(ValOf(value)), ps[n][1])

\* key_from_mapping trying the synonyms before the canonical keys
key_from_mapping_SynonymFirst(s, m, invert) ==
    LET input == lower(strip(s))
        lcm == Dict(lower_case_mappings(ValOf(m)))
        inv == Dict(inverse_mappings(ValOf(m), Len(ValOf(m))))
    IN  IF HasKey(inv, input) THEN Str(GetItem(inv, input))
        ELSE IF HasKey(lcm, input)
        THEN IF invert THEN GetItem(m, GetItem(lcm, input)) ELSE Str(GetItem(lcm, input))
        ELSE Null

\* key_from_mapping returning the key whatever invert is
key_from_mapping_IgnoresInvert(s, m, invert) ==
    LET input == lower(strip(s))
        lcm == Dict(lower_case_mappings(ValOf(m)))
        inv == Dict(inverse_mappings(ValOf(m), Len(ValOf(m))))
    IN  IF HasKey(lcm, input) THEN Str(GetItem(lcm, input))
        ELSE IF HasKey(inv, input) THEN Str(GetItem(inv, input))
        ELSE Null

\* key_from_mapping(input_str, mappings, invert), lines 241-261
key_from_mapping(s, m, invert) ==
    LET input == lower(strip(s))
        lcm == Dict(lower_case_mappings(ValOf(m)))
        inv == Dict(inverse_mappings(ValOf(m), Len(ValOf(m))))
    IN  IF HasKey(lcm, input)
        THEN IF invert THEN GetItem(m, GetItem(lcm, input)) ELSE Str(GetItem(lcm, input))
        ELSE IF HasKey(inv, input) THEN Str(GetItem(inv, input))
        ELSE Null

\* the labels, mappings and inputs the calls are made with
MaxSyn == 2     \* longest list of synonyms

CanonicalKeys == {<<"a">>, <<"A">>, <<"b">>, <<"b", " ">>}
Synonyms == {Str(<<"x">>), Str(<<"X">>), Str(<<"A">>)}
MappingValues == Synonyms \cup {List(xs) : xs \in UNION {[1..n -> Synonyms] : n \in 0..MaxSyn}}
Mappings ==
    {Dict(<< <<k1, v1>> >>) : k1 \in CanonicalKeys, v1 \in MappingValues}
    \cup {Dict(<< <<kk[1], v1>>, <<kk[2], v2>> >>) :
            kk \in {p \in CanonicalKeys \X CanonicalKeys : p[1] # p[2]},
            v1 \in MappingValues, v2 \in MappingValues}
Inputs == {<<"a">>, <<" ", "A">>, <<"X", " ">>, <<"x">>, <<" ", "B", " ">>, <<"z">>}

----------------------------------------------------------------------------
(* UserAgentRandomizer (_http/utils.py): class-level state shared by every *)
(* call.  user_agents is the set of strings all_user_agents is built from. *)

MaxRecent == 5      \* recent_selections = deque(maxlen=5)
MaxRepeat == 3      \* while cls.recent_selections.count(choice) >= 3
MaxCalls == 7       \* calls followed in selections

Agents == {"ua1", "ua2", "ua3"}

\* deque.count(x)
count(q, x) == Cardinality({i \in 1..Len(q) : q[i] = x})

\* deque.append(x) on a deque with maxlen: a full deque drops its oldest item
append(q, x) == IF Len(q) < MaxRecent THEN Append(q, x) ELSE Append(Tail(q), x)

\* a call that takes its first choice whatever recent_selections holds
GetRandomUserAgent_NoRetry(loaded, choice) ==
    /\ Len(selections) < MaxCalls
    /\ user_agents' = loaded
    /\ choice \in loaded
    /\ recent_selections' = append(recent_selections, choice)
    /\ selections' = Append(selections, choice)
    /\ UNCHANGED <<normVars, connVars, callVars, mapVars, restVars>>

\* get_random_user_agent returning choice: the configuration is reloaded
\* when its file changed, and the loop ends on a choice that is in
\* recent_selections fewer than three times
GetRandomUserAgent(loaded, choice) ==
    /\ Len(selections) < MaxCalls
    /\ user_agents' = loaded
    /\ choice \in loaded
    /\ count(recent_selections, choice) < MaxRepeat
    /\ recent_selections' = append(recent_selections, choice)
    /\ selections' = Append(selections, choice)
    /\ UNCHANGED <<normVars, connVars, callVars, mapVars, restVars>>

\* get_random_user_agent with no user agent loaded: random.choice raises
\* IndexError at line 79
GetRandomUserAgentRaises(loaded) ==
    /\ loaded = {}
    /\ user_agents' = loaded
    /\ UNCHANGED <<normVars, connVars, callVars, mapVars, restVars, recent_selections, selections>>

\* get_random_user_agent when every loaded user agent is in
\* recent_selections three times: the loop of lines 80-81 does not end, and
\* the call appends nothing
GetRandomUserAgentSpins(loaded) ==
    /\ loaded # {}
    /\ \A choice \in loaded : count(recent_selections, choice) >= MaxRepeat
    /\ user_agents' = loaded
    /\ UNCHANGED <<normVars, connVars, callVars, mapVars, restVars, recent_selections, selections>>

----------------------------------------------------------------------------
(* get_random_user_agent step by step: the draw of line 79, the redraws of *)
(* the loop of lines 80-81, and the append and return of lines 83-84.      *)
(* ua_pc is "idle" between calls and "loop" at the while test.             *)

NoChoice == "none"

\* lines 72-79: the configuration as it is loaded, and the first draw
Draw(loaded, choice) ==
    /\ ua_pc = "idle"
    /\ Len(selections) < MaxCalls
    /\ choice \in loaded
    /\ user_agents' = loaded
    /\ ua_choice' = choice
    /\ ua_pc' = "loop"
    /\ UNCHANGED <<normVars, connVars, callVars, mapVars, guiVars, fixVars,
                   recent_selections, selections>>

\* lines 72-79 with nothing loaded: random.choice raises IndexError
DrawRaises(loaded) ==
    /\ ua_pc = "idle"
    /\ loaded = {}
    /\ user_agents' = loaded
    /\ UNCHANGED <<normVars, connVars, callVars, mapVars, guiVars, fixVars, loopVars,
                   recent_selections, selections>>

\* lines 80-81: the choice is in recent_selections three times, draw again
Redraw(choice) ==
    /\ ua_pc = "loop"
    /\ count(recent_selections, ua_choice) >= MaxRepeat
    /\ choice \in user_agents
    /\ ua_choice' = choice
    /\ UNCHANGED <<normVars, connVars, callVars, mapVars, guiVars, fixVars, uaVars, ua_pc>>

\* lines 80, 83-84: the loop ends, the choice is appended and returned
ReturnChoice ==
    /\ ua_pc = "loop"
    /\ count(recent_selections, ua_choice) < MaxRepeat
    /\ recent_selections' = append(recent_selections, ua_choice)
    /\ selections' = Append(selections, ua_choice)
    /\ ua_pc' = "idle"
    /\ ua_choice' = NoChoice
    /\ UNCHANGED <<normVars, connVars, callVars, mapVars, guiVars, fixVars, user_agents>>

----------------------------------------------------------------------------
(* InflationCalculatorApp (gui/cpi/calculateGUI.py): the main thread, from *)
(* __init__ to on_closing, and the monitor thread init_queue starts.  Each *)
(* action is one statement; the threads share the object's attributes with *)
(* no lock.  An attribute that is not assigned yet is "unset", and reading *)
(* it raises AttributeError.                                               *)
(* gui_pc: "init_queue" "first_process" "set_width" "set_height"           *)
(*         "constructed" "mainloop" "join" "destroy" "destroyed"           *)
(* mon_pc: "notstarted" "check" "width" "height" "compare_width"           *)
(*         "compare_height" "put" "set_width" "set_height" "sleep" "done"  *)
(*         "waiting" "AttributeError" "RuntimeError"                       *)

MaxChanges == 1     \* changes of the screen's resolution followed

Resolutions == {<<"w1", "h1">>, <<"w2", "h2">>}

notGui == <<normVars, connVars, callVars, mapVars, uaVars, loopVars, fixVars>>

\* init_queue, lines 48-51: the queue is made and the monitor thread started
InitQueue ==
    /\ gui_pc = "init_queue"
    /\ queue' = <<>>
    /\ mon_pc' = "check"
    /\ gui_pc' = "first_process"
    /\ UNCHANGED <<notGui, running, previous_screen_width, previous_screen_height,
                   scheduled, screen, changes, local, puts, applied>>

\* the body of process_queue, lines 65-71
process_queue ==
    IF running
    THEN /\ IF queue # <<>>
            THEN /\ applied' = Append(applied, Head(queue))
                 /\ queue' = Tail(queue)
            ELSE UNCHANGED <<applied, queue>>
         /\ scheduled' = TRUE
    ELSE /\ scheduled' = FALSE
         /\ UNCHANGED <<applied, queue>>

\* init_queue, line 52: process_queue called by the constructor
FirstProcessQueue ==
    /\ gui_pc = "first_process"
    /\ process_queue
    /\ gui_pc' = "set_width"
    /\ UNCHANGED <<notGui, mon_pc, running, previous_screen_width, previous_screen_height,
                   screen, changes, local, puts>>

\* __init__, line 44
InitWidthNone ==
    /\ gui_pc = "set_width"
    /\ previous_screen_width' = "None"
    /\ gui_pc' = "set_height"
    /\ UNCHANGED <<notGui, mon_pc, running, previous_screen_height, queue, scheduled,
                   screen, changes, local, puts, applied>>

\* __init__, line 45
InitHeightNone ==
    /\ gui_pc = "set_height"
    /\ previous_screen_height' = "None"
    /\ gui_pc' = "constructed"
    /\ UNCHANGED <<notGui, mon_pc, running, previous_screen_width, queue, scheduled,
                   screen, changes, local, puts, applied>>

\* run, lines 277-279: the main thread enters the event loop
Run ==
    /\ gui_pc = "constructed"
    /\ gui_pc' = "mainloop"
    /\ UNCHANGED <<notGui, mon_pc, running, previous_screen_width, previous_screen_height,
                   queue, scheduled, screen, changes, local, puts, applied>>

\* the event loop runs the pending after(100, self.process_queue) callback
ProcessQueueCallback ==
    /\ gui_pc = "mainloop"
    /\ scheduled
    /\ process_queue
    /\ UNCHANGED <<notGui, gui_pc, mon_pc, running, previous_screen_width,
                   previous_screen_height, screen, changes, local, puts>>

\* on_closing, line 272, run by the event loop for WM_DELETE_WINDOW
OnClosing ==
    /\ gui_pc = "mainloop"
    /\ running' = FALSE
    /\ gui_pc' = "join"
    /\ UNCHANGED <<notGui, mon_pc, previous_screen_width, previous_screen_height,
                   queue, scheduled, screen, changes, local, puts, applied>>

\* on_closing, line 273: join returns when the monitor thread has ended
Join ==
    /\ gui_pc = "join"
    /\ mon_pc \in {"done", "AttributeError", "RuntimeError"}
    /\ gui_pc' = "destroy"
    /\ UNCHANGED <<notGui, mon_pc, running, previous_screen_width, previous_screen_height,
                   queue, scheduled, screen, changes, local, puts, applied>>

\* on_closing, line 274
Destroy ==
    /\ gui_pc = "destroy"
    /\ gui_pc' = "destroyed"
    /\ UNCHANGED <<notGui, mon_pc, running, previous_screen_width, previous_screen_height,
                   queue, scheduled, screen, changes, local, puts, applied>>

\* the move of the monitor thread from one statement to the next
MonitorGoes(from, to) ==
    /\ mon_pc = from
    /\ mon_pc' = to
    /\ UNCHANGED <<notGui, gui_pc, running, scheduled, screen, changes, applied>>

\* monitor_resolution, line 55
MonitorCheck ==
    /\ MonitorGoes("check", IF running THEN "width" ELSE "done")
    /\ UNCHANGED <<previous_screen_width, previous_screen_height, queue, local, puts>>

\* monitor_resolution, line 56
MonitorWidth ==
    /\ MonitorGoes("width", "height")
    /\ local' = <<screen[1], local[2]>>
    /\ UNCHANGED <<previous_screen_width, previous_screen_height, queue, puts>>

\* monitor_resolution, line 57
MonitorHeight ==
    /\ MonitorGoes("height", "compare_width")
    /\ local' = <<local[1], screen[2]>>
    /\ UNCHANGED <<previous_screen_width, previous_screen_height, queue, puts>>

\* lines 56-57 are calls into Tk from a thread that is not the main thread.
\* Where Tcl is built with threads the call is handed to the main thread's
\* event loop: while the main thread is inside a handler (on_closing,
\* blocked in join) the call waits for it
MonitorTkWaits ==
    /\ mon_pc \in {"width", "height"}
    /\ gui_pc = "join"
    /\ MonitorGoes(mon_pc, "waiting")
    /\ UNCHANGED <<previous_screen_width, previous_screen_height, queue, local, puts>>

\* and while the main thread has not entered the event loop the call raises
\* RuntimeError (main thread is not in main loop), which ends the thread
MonitorTkRaises ==
    /\ mon_pc \in {"width", "height"}
    /\ gui_pc \in {"first_process", "set_width", "set_height", "constructed"}
    /\ MonitorGoes(mon_pc, "RuntimeError")
    /\ UNCHANGED <<previous_screen_width, previous_screen_height, queue, local, puts>>

\* line 58, left operand: screen_width != self.previous_screen_width
MonitorCompareWidth ==
    /\ MonitorGoes("compare_width",
                   IF previous_screen_width = "unset" THEN "AttributeError"
                   ELSE IF local[1] # previous_screen_width THEN "put"
                   ELSE "compare_height")
    /\ UNCHANGED <<previous_screen_width, previous_screen_height, queue, local, puts>>

\* line 58, right operand: screen_height != self.previous_screen_height
MonitorCompareHeight ==
    /\ MonitorGoes("compare_height",
                   IF previous_screen_height = "unset" THEN "AttributeError"
                   ELSE IF local[2] # previous_screen_height THEN "put"
                   ELSE "sleep")
    /\ UNCHANGED <<previous_screen_width, previous_screen_height, queue, local, puts>>

\* line 59
MonitorPut ==
    /\ MonitorGoes("put", "set_width")
    /\ queue' = Append(queue, local)
    /\ puts' = Append(puts, local)
    /\ UNCHANGED <<previous_screen_width, previous_screen_height, local>>

\* line 60
MonitorSetWidth ==
    /\ MonitorGoes("set_width", "set_height")
    /\ previous_screen_width' = local[1]
    /\ UNCHANGED <<previous_screen_height, queue, local, puts>>

\* line 61
MonitorSetHeight ==
    /\ MonitorGoes("set_height", "sleep")
    /\ previous_screen_height' = local[2]
    /\ UNCHANGED <<previous_screen_width, queue, local, puts>>

\* line 62
MonitorSleep ==
    /\ MonitorGoes("sleep", "check")
    /\ UNCHANGED <<previous_screen_width, previous_screen_height, queue, local, puts>>

\* the user changes the resolution of the screen
ScreenChanges(resolution) ==
    /\ changes < MaxChanges
    /\ resolution # screen
    /\ screen' = resolution
    /\ changes' = changes + 1
    /\ UNCHANGED <<notGui, gui_pc, mon_pc, running, previous_screen_width,
                   previous_screen_height, queue, scheduled, local, puts, applied>>

MainThread ==
    \/ InitQueue
    \/ FirstProcessQueue
    \/ InitWidthNone
    \/ InitHeightNone
    \/ Run
    \/ ProcessQueueCallback
    \/ OnClosing
    \/ Join
    \/ Destroy

MonitorThread ==
    \/ MonitorCheck
    \/ MonitorWidth
    \/ MonitorHeight
    \/ MonitorTkWaits
    \/ MonitorTkRaises
    \/ MonitorCompareWidth
    \/ MonitorCompareHeight
    \/ MonitorPut
    \/ MonitorSetWidth
    \/ MonitorSetHeight
    \/ MonitorSleep

----------------------------------------------------------------------------
(* The calls *)

\* the connection as it is configured, and no call in progress
ConnInit ==
    /\ conn_headers = [h \in HeaderNames |-> IF h = "Accept" THEN "text/html" ELSE "ua0"]
    /\ base_url = U0
    /\ pc = [c \in Callers |-> "idle"]
    /\ args = [c \in Callers |-> NoArgs]
    /\ hdrs = NoLocals
    /\ original_headers = NoLocals
    /\ idx = [c \in Callers |-> 1]
    /\ resp = [c \in Callers |-> Null]
    /\ ret = [c \in Callers |-> NotCalled]
    /\ pre = [c \in Callers |-> NoHeaders]
    /\ written = [c \in Callers |-> {}]
    /\ fetches = NoLocals

\* no key_from_mapping call made
MapIdle ==
    /\ input_str = <<>>
    /\ mappings = Dict(<<>>)
    /\ resolved = NotCalled
    /\ resolvedInv = NotCalled
    /\ resolvedAgain = NotCalled

\* the class as it is defined: nothing loaded, nothing selected
UAInit ==
    /\ user_agents = {}
    /\ recent_selections = <<>>
    /\ selections = <<>>

\* no get_random_user_agent call in progress
LoopIdle ==
    /\ ua_pc = "idle"
    /\ ua_choice = NoChoice

\* InflationCalculatorApp.__init__ after line 42: running is set, the
\* monitor thread is not started, the two attributes of lines 44-45 do not
\* exist yet
GuiInit ==
    /\ gui_pc = "init_queue"
    /\ mon_pc = "notstarted"
    /\ running = TRUE
    /\ previous_screen_width = "unset"
    /\ previous_screen_height = "unset"
    /\ queue = <<>>
    /\ scheduled = FALSE
    /\ screen = <<"w1", "h1">>
    /\ changes = 0
    /\ local = <<"unset", "unset">>
    /\ puts = <<>>
    /\ applied = <<>>

\* fix_versions.main not begun
FixInit ==
    /\ fix_pc = "start"
    /\ outdated = FALSE
    /\ futures = [n \in {"Chrome", "Edge", "macOS"} |-> "unset"]
    /\ altered = <<>>

RestIdle == LoopIdle /\ GuiInit /\ FixInit

\* no normalize_response call made
NormIdle ==
    /\ payload = Null
    /\ target_key = K
    /\ onlyNormalize = FALSE
    /\ result = NotCalled
    /\ resultKS = NotCalled
    /\ parsed1 = NotCalled
    /\ parsed2 = NotCalled

Init ==
    /\ payload \in Payloads
    /\ target_key \in Keys
    /\ onlyNormalize \in BOOLEAN
    /\ result = NotCalled
    /\ resultKS = NotCalled
    /\ parsed1 = NotCalled
    /\ parsed2 = NotCalled
    /\ ConnInit
    /\ MapIdle
    /\ UAInit
    /\ RestIdle

\* normalize_response(payload, target_key, onlyNormalize, keep_structure),
\* once with keep_structure=False and once with keep_structure=True
CallNormalizeResponse ==
    /\ result = NotCalled
    /\ result' = normalize_response(payload, target_key, onlyNormalize, FALSE)
    /\ resultKS' = normalize_response(payload, target_key, onlyNormalize, TRUE)
    /\ UNCHANGED <<payload, target_key, onlyNormalize, parsed1, parsed2, connVars, callVars, toolVars>>

\* deep_parse_json(payload), and deep_parse_json of what it returned
CallDeepParse ==
    /\ parsed1 = NotCalled
    /\ parsed1' = deep_parse_json(payload)
    /\ parsed2' = deep_parse_json(deep_parse_json(payload))
    /\ UNCHANGED <<payload, target_key, onlyNormalize, result, resultKS, connVars, callVars, toolVars>>

Next == CallNormalizeResponse \/ CallDeepParse

Spec == Init /\ [][Next]_vars

\* the dispatcher: calls one after the other by one caller, on one connection
InitRequest ==
    /\ payload = Null
    /\ target_key = K
    /\ onlyNormalize = FALSE
    /\ result = NotCalled
    /\ resultKS = NotCalled
    /\ parsed1 = NotCalled
    /\ parsed2 = NotCalled
    /\ ConnInit
    /\ MapIdle
    /\ UAInit
    /\ RestIdle

Sequential == {1}

NextRequest ==
    \E c \in Sequential :
        \/ \E a \in RequestArgs \cup MakeRequestArgs : Begin(c, a)
        \/ Capture(c)
        \/ Update(c)
        \/ \E content \in Contents : FetchOne(c, content)
        \/ \E contents \in [1..Len(args[c].url.urls) -> Contents],
              order \in Permutations(1..Len(args[c].url.urls)) : FetchMany(c, contents, order)
        \/ FetchRaises(c)
        \/ Restore(c)
        \/ Finish(c)
        \/ Leave(c)

SpecRequest == InitRequest /\ [][NextRequest]_vars

\* the batch: Request over three URLs that serve three different contents
BatchArgs ==
    [fn : {"Request"}, url : {[isList |-> TRUE, urls |-> <<U1, U2, U3>>]},
     headers_to_update : {NoneArg, Given(<< <<"User-Agent", "ua1">> >>)},
     response_format : {"html", "json"}, target_response_key : {K},
     onlyParse : BOOLEAN, no_content : BOOLEAN]

BatchContents == {Str(<<"x">>), Entry(A, Str(<<"5">>)), Entry(K, Num(7))}

Distinct(contents) ==
    \A i, j \in DOMAIN contents : i # j => contents[i] # contents[j]

NextBatch ==
    \E c \in Sequential :
        \/ \E a \in BatchArgs : Begin(c, a)
        \/ Capture(c)
        \/ Update(c)
        \/ \E contents \in [1..Len(args[c].url.urls) -> BatchContents],
              order \in Permutations(1..Len(args[c].url.urls)) :
                Distinct(contents) /\ FetchMany(c, contents, order)
        \/ FetchRaises(c)
        \/ Restore(c)
        \/ Finish(c)
        \/ Leave(c)

SpecBatch == InitRequest /\ [][NextBatch]_vars

\* two calls at once on the one connection, both overriding Accept: a
\* 'json' Request and a _make_request given an Accept of its own
RaceArgs ==
    {a \in RequestArgs : /\ a.response_format = "json"
                         /\ ~a.url.isList
                         /\ ~a.headers_to_update.given
                         /\ ~a.onlyParse /\ ~a.no_content}
    \cup {a \in MakeRequestArgs : a.headers_to_update = Given(<< <<"Accept", "text/plain">> >>)}

RaceContents == {Str(<<"x">>)}

NextRace ==
    \E c \in Callers :
        \/ \E a \in RaceArgs : Begin(c, a)
        \/ Capture(c)
        \/ Update(c)
        \/ \E content \in RaceContents : FetchOne(c, content)
        \/ Restore(c)
        \/ Finish(c)
        \/ Leave(c)

SpecRace == InitRequest /\ [][NextRace]_vars

\* key_from_mapping(input_str, mappings), once with invert=False and once
\* with invert=True
CallKeyFromMapping ==
    /\ resolved = NotCalled
    /\ resolved' = key_from_mapping(input_str, mappings, FALSE)
    /\ resolvedInv' = key_from_mapping(input_str, mappings, TRUE)
    /\ UNCHANGED <<input_str, mappings, resolvedAgain, normVars, connVars, callVars, uaVars, restVars>>

\* key_from_mapping(K, mappings), for the key K the call with invert=False gave
CallKeyFromMappingAgain ==
    /\ resolved # NotCalled
    /\ resolved # Null
    /\ resolvedAgain = NotCalled
    /\ resolvedAgain' = key_from_mapping(ValOf(resolved), mappings, FALSE)
    /\ UNCHANGED <<input_str, mappings, resolved, resolvedInv, normVars, connVars, callVars, uaVars, restVars>>

InitMapping ==
    /\ input_str \in Inputs
    /\ mappings \in Mappings
    /\ resolved = NotCalled
    /\ resolvedInv = NotCalled
    /\ resolvedAgain = NotCalled
    /\ NormIdle
    /\ ConnInit
    /\ UAInit
    /\ RestIdle

NextMapping == CallKeyFromMapping \/ CallKeyFromMappingAgain

SpecMapping == InitMapping /\ [][NextMapping]_vars

\* calls of get_random_user_agent, one after the other
InitUserAgent ==
    /\ UAInit
    /\ RestIdle
    /\ NormIdle
    /\ ConnInit
    /\ MapIdle

NextUserAgent ==
    \E loaded \in SUBSET Agents :
        \/ \E choice \in Agents : GetRandomUserAgent(loaded, choice)
        \/ GetRandomUserAgentRaises(loaded)
        \/ GetRandomUserAgentSpins(loaded)

SpecUserAgent == InitUserAgent /\ [][NextUserAgent]_vars

\* the application: its two threads interleaved, and the screen
InitGui ==
    /\ GuiInit
    /\ LoopIdle
    /\ FixInit
    /\ NormIdle
    /\ ConnInit
    /\ MapIdle
    /\ UAInit

NextGui ==
    \/ MainThread
    \/ MonitorThread
    \/ \E resolution \in Resolutions : ScreenChanges(resolution)

SpecGui == InitGui /\ [][NextGui]_vars

\* the threads are scheduled: a thread that can take its next statement
\* takes it.  Nothing makes the user close the window or change the screen.
SpecGuiLive ==
    /\ InitGui
    /\ [][NextGui]_vars
    /\ WF_vars(InitQueue \/ FirstProcessQueue \/ InitWidthNone \/ InitHeightNone \/ Run)
    /\ WF_vars(Join \/ Destroy)
    /\ WF_vars(ProcessQueueCallback)
    /\ WF_vars(MonitorThread)

\* the calls step by step; the random choice is fair: a draw that is
\* possible again and again is made
NextUserAgentLoop ==
    \/ \E loaded \in SUBSET Agents :
        \/ \E choice \in Agents : Draw(loaded, choice)
        \/ DrawRaises(loaded)
    \/ \E choice \in Agents : Redraw(choice)
    \/ ReturnChoice

SpecUserAgentLoop ==
    /\ InitUserAgent
    /\ [][NextUserAgentLoop]_vars
    /\ WF_vars(ReturnChoice)
    /\ \A choice \in Agents : SF_vars(Redraw(choice))

----------------------------------------------------------------------------
(* fix_versions.main (configuration/fix_versions.py), statement by         *)
(* statement.  futures[n] is what the fetch submitted for n ended with: a  *)
(* version, "None", or "raise" for an exception kept in the future.        *)

Browsers == <<"Chrome", "Edge", "macOS">>
Versions == {"v1", "v2"}

\* what each fetch can end with: fetch_chrome_version returns the "version"
\* member of the document, which may be null; fetch_edge_version returns
\* None for a page without a table; fetch_MacOS_version returns a string
\* that holds a digit; each of them can raise
Outcomes(n) == IF n = "macOS" THEN Versions \cup {"raise"} ELSE Versions \cup {"None", "raise"}

notFix == <<normVars, connVars, callVars, mapVars, uaVars, loopVars, guiVars>>

\* if JsonFileHandler("config.json").is_outdated():
IsOutdated(answer) ==
    /\ fix_pc = "start"
    /\ outdated' = answer
    /\ fix_pc' = IF answer THEN "executor" ELSE "returned"
    /\ UNCHANGED <<futures, altered, notFix>>

\* a submitted fetch runs to its end in a thread of the executor
Fetch(n, outcome) ==
    /\ fix_pc = "executor"
    /\ futures[n] = "unset"
    /\ futures' = [futures EXCEPT ![n] = outcome]
    /\ UNCHANGED <<fix_pc, outdated, altered, notFix>>

\* leaving the with block waits for the three fetches
ExecutorExit ==
    /\ fix_pc = "executor"
    /\ \A i \in 1..Len(Browsers) : futures[Browsers[i]] # "unset"
    /\ fix_pc' = "result1"
    /\ UNCHANGED <<outdated, futures, altered, notFix>>

\* X = future.result(), for the i-th future: an exception kept in the future
\* is raised again
Result(i) ==
    /\ fix_pc = IF i = 1 THEN "result1" ELSE IF i = 2 THEN "result2" ELSE "result3"
    /\ fix_pc' = IF futures[Browsers[i]] = "raise" THEN "raised"
                 ELSE IF i = 1 THEN "result2" ELSE IF i = 2 THEN "result3" ELSE "prefixes"
    /\ UNCHANGED <<outdated, futures, altered, notFix>>

\* lines 98-115: the file is located and read, and X_w_PREFIX is assigned
\* for each version that is true
Prefixes ==
    /\ fix_pc = "prefixes"
    /\ fix_pc' = "alter1"
    /\ UNCHANGED <<outdated, futures, altered, notFix>>

\* filePaths.alter(user_agents_file, new=X_w_PREFIX, pattern=...), for the
\* i-th version: X_w_PREFIX is not assigned when the version is None
Alter(i) ==
    /\ fix_pc = IF i = 1 THEN "alter1" ELSE IF i = 2 THEN "alter2" ELSE "alter3"
    /\ IF futures[Browsers[i]] = "None"
       THEN /\ fix_pc' = "raised"
            /\ UNCHANGED altered
       ELSE /\ altered' = Append(altered, <<Browsers[i], futures[Browsers[i]]>>)
            /\ fix_pc' = IF i = 1 THEN "alter2" ELSE IF i = 2 THEN "alter3" ELSE "returned"
    /\ UNCHANGED <<outdated, futures, notFix>>

InitFix ==
    /\ FixInit
    /\ LoopIdle
    /\ GuiInit
    /\ NormIdle
    /\ ConnInit
    /\ MapIdle
    /\ UAInit

NextFix ==
    \/ \E answer \in BOOLEAN : IsOutdated(answer)
    \/ \E i \in 1..Len(Browsers) : \E outcome \in Outcomes(Browsers[i]) : Fetch(Browsers[i], outcome)
    \/ ExecutorExit
    \/ \E i \in 1..Len(Browsers) : Result(i)
    \/ Prefixes
    \/ \E i \in 1..Len(Browsers) : Alter(i)

SpecFix == InitFix /\ [][NextFix]_vars

----------------------------------------------------------------------------
(* Occurrences of a key in a payload, stated on paths.  A path is the      *)
(* sequence of child positions from the root: entry i of a mapping,        *)
(* element i of a sequence, and position 1 for what a string decodes to.   *)

Children(x) ==
    IF TypeOf(x) = "dict" THEN [i \in 1..Len(ValOf(x)) |-> ValOf(x)[i][2]]
    ELSE IF TypeOf(x) = "list" THEN ValOf(x)
    ELSE IF TypeOf(x) = "str" /\ JsonLoads(ValOf(x)).ok THEN <<JsonLoads(ValOf(x)).val>>
    ELSE <<>>

RECURSIVE Paths(_)
Paths(x) ==
    {<<>>} \cup UNION {{<<i>> \o p : p \in Paths(Children(x)[i])} : i \in 1..Len(Children(x))}

RECURSIVE NodeAt(_, _)
NodeAt(x, p) == IF p = <<>> THEN x ELSE NodeAt(Children(x)[Head(p)], Tail(p))

Occurrences(x, k) == {p \in Paths(x) : TypeOf(NodeAt(x, p)) = "dict" /\ HasKey(NodeAt(x, p), k)}

IsProperPrefix(p, q) == Len(p) < Len(q) /\ \A i \in 1..Len(p) : p[i] = q[i]

\* depth-first discovery order: a node before what is below it, children by position
Before(p, q) ==
    \/ IsProperPrefix(p, q)
    \/ \E i \in 1..Len(p) :
        /\ i <= Len(q)
        /\ \A j \in 1..(i - 1) : p[j] = q[j]
        /\ p[i] < q[i]

RECURSIVE InOrder(_)
InOrder(S) ==
    IF S = {} THEN <<>>
    ELSE LET first == CHOOSE p \in S : \A q \in S \ {p} : Before(p, q)
         IN  <<first>> \o InOrder(S \ {first})

\* the values stored under key k, in discovery order, as the payload holds them
Stored(x, k) ==
    LET ps == InOrder(Occurrences(x, k))
    IN  [i \in 1..Len(ps) |-> GetItem(NodeAt(x, ps[i]), k)]

Called == result # NotCalled
Extracting == Called /\ ~onlyNormalize
Count == Cardinality(Occurrences(payload, target_key))

----------------------------------------------------------------------------
(* Claims about normalize_response *)

\* C1: when target_key occurs exactly once, extraction returns the
\* deep-parsed form of the whole value stored under it, whatever its type
C1_SingleValueWhole ==
    (Extracting /\ Count = 1) =>
        result = deep_parse_json(Stored(payload, target_key)[1])

\* C2: when target_key occurs N > 1 times, extraction returns the sequence of
\* the N deep-parsed values in depth-first discovery order
C2_ManyInDiscoveryOrder ==
    (Extracting /\ Count > 1) =>
        LET stored == Stored(payload, target_key)
        IN  /\ TypeOf(result) = "list"
            /\ Len(ValOf(result)) = Count
            /\ \A i \in 1..Count : ValOf(result)[i] = deep_parse_json(stored[i])

\* a call that found three or more occurrences, one of them inside another's mapping
C2_Witness ==
    /\ Extracting
    /\ Count >= 3
    /\ \E p, q \in Occurrences(payload, target_key) : IsProperPrefix(p, q)
    /\ TypeOf(result) = "list"

\* C3: when target_key occurs nowhere, extraction returns the empty sequence
\* and raises nothing
C3_NoneGivesEmpty ==
    (Extracting /\ Count = 0) => result = List(<<>>)

\* a call on a payload that holds mappings, one of them inside a string, none with target_key
C3_Witness ==
    /\ Extracting
    /\ Count = 0
    /\ \E p \in Paths(payload) : p # <<>> /\ TypeOf(NodeAt(payload, p)) = "dict" /\ ValOf(NodeAt(payload, p)) # <<>>
    /\ \E p \in Paths(payload) : TypeOf(NodeAt(payload, p)) = "str" /\ Children(NodeAt(payload, p)) # <<>>
    /\ result = List(<<>>)

\* C4: deep-parse is idempotent
C4_DeepParseIdempotent ==
    parsed1 # NotCalled => parsed2 = parsed1

\* a deep-parse that decoded a string serialized more than once
C4_Witness ==
    /\ parsed1 # NotCalled
    /\ parsed1 # payload
    /\ \E p \in Paths(payload) :
        /\ Len(p) >= 2
        /\ TypeOf(NodeAt(payload, p)) = "str"
        /\ TypeOf(NodeAt(payload, SubSeq(p, 1, Len(p) - 1))) = "str"

\* the strings and scalars deep-parse has nothing to decode in
Irreducible(x) ==
    \/ TypeOf(x) \in {"num", "bool", "null"}
    \/ TypeOf(x) = "str" /\ ~JsonLoads(ValOf(x)).ok

C7_OnlyNormalizeIsDeepParse ==
    (Called /\ onlyNormalize /\ parsed1 # NotCalled) =>
        /\ result = parsed1
        /\ resultKS = parsed1
        /\ \A k \in Keys, ks \in BOOLEAN : normalize_response(payload, k, TRUE, ks) = result

\* an onlyNormalize call on a payload that holds target_key and a serialized string
C7_Witness ==
    /\ Called
    /\ onlyNormalize
    /\ parsed1 # NotCalled
    /\ Count >= 1
    /\ result # payload
    /\ TypeOf(result) = "dict"
----------------------------------------------------------------------------
(* Claims about Request and _make_request *)

\* the headers the call overrides: the names in the mapping its loops run over
Overridden(c) == {hdrs[c][i][1] : i \in 1..Len(hdrs[c])}

\* C8: Request never lets an exception of normalize_response out: when it
\* raises for the fetched payload Request returns the raw response, when it
\* does not Request returns the normalized result
C8_NormalizeFailureReturnsRaw ==
    \A c \in Callers :
        args[c].fn = "Request" =>
            /\ pc[c] = "raised" => (ret[c] = Raise("HTTPError") /\ fetches[c] = <<>>)
            /\ pc[c] = "returned" =>
                LET normalized == normalize_response(resp[c], args[c].target_response_key,
                                                     args[c].onlyParse, args[c].no_content)
                IN  /\ ~IsRaise(ret[c])
                    /\ IsRaise(normalized) => ret[c] = resp[c]
                    /\ ~IsRaise(normalized) => ret[c] = normalized

\* a Request that returned the raw response because normalize_response raised
C8_Witness ==
    \E c \in Callers :
        /\ pc[c] = "returned"
        /\ args[c].fn = "Request"
        /\ IsRaise(normalize_response(resp[c], args[c].target_response_key,
                                      args[c].onlyParse, args[c].no_content))
        /\ ret[c] = resp[c]

\* C9: after a call that returns normally every overridden header, the
\* Accept forced by 'json' included, has the value it had when the call
\* began, and no other header was written
C9_HeadersRoundTrip ==
    \A c \in Callers :
        pc[c] = "returned" =>
            /\ \A h \in Overridden(c) : get_headers(conn_headers, h) = pre[c][h]
            /\ written[c] \subseteq Overridden(c)

\* a returned 'json' Request, given an Accept of its own and a User-Agent,
\* whose fetch went out under the forced Accept
C9_Witness ==
    \E c \in Callers :
        /\ pc[c] = "returned"
        /\ args[c].fn = "Request"
        /\ args[c].response_format = "json"
        /\ written[c] = {"Accept", "User-Agent"}
        /\ Len(fetches[c]) = 1
        /\ fetches[c][1].headers["Accept"] = "application/json"
        /\ conn_headers["Accept"] = pre[c]["Accept"]
        /\ pre[c]["Accept"] # "application/json"

\* C10: when the fetch raises, the overridden headers are back at their
\* pre-call values before control leaves the call
C10_RestoredWhenFetchRaises ==
    \A c \in Callers :
        (pc[c] = "raised" /\ ret[c] = Raise("HTTPError")) =>
            \A h \in Overridden(c) : get_headers(conn_headers, h) = pre[c][h]

\* the call was given no header overrides: None or an empty mapping
NoOverrides(a) == ~a.headers_to_update.given \/ a.headers_to_update.items = <<>>

\* C11: with response_format 'json' the connection's Accept is
\* 'application/json' when the fetch is issued, whatever headers_to_update
\* the caller gave; with 'html' and no overrides no header is read or written
C11_AcceptForcedAtFetch ==
    \A c \in Callers :
        args[c].fn = "Request" =>
            /\ (args[c].response_format = "json" /\ pc[c] = "fetch") =>
                get_headers(conn_headers, "Accept") = "application/json"
            /\ (args[c].response_format = "json") =>
                \A i \in 1..Len(fetches[c]) : fetches[c][i].headers["Accept"] = "application/json"
            /\ (args[c].response_format = "html" /\ NoOverrides(args[c])) =>
                /\ original_headers[c] = <<>>
                /\ written[c] = {}
                /\ conn_headers = pre[c]

\* a 'json' Request given an Accept of its own, at its fetch
C11_Witness ==
    \E c \in Callers :
        /\ pc[c] = "fetch"
        /\ args[c].fn = "Request"
        /\ args[c].response_format = "json"
        /\ args[c].headers_to_update.given
        /\ HasKey(Dict(args[c].headers_to_update.items), "Accept")
        /\ GetItem(Dict(args[c].headers_to_update.items), "Accept") # "application/json"
        /\ conn_headers["Accept"] = "application/json"
        /\ pre[c]["Accept"] # "application/json"

\* C12: Request issues the batch fetch once and the single fetch never when
\* url is a list of more than one element, and otherwise the single fetch
\* once and the batch fetch never; every header override is written before
\* the fetch and every restore comes after it
C12_DispatchChoice ==
    \A c \in Callers :
        args[c].fn = "Request" =>
            /\ pc[c] \in {"capture", "update", "fetch"} => fetches[c] = <<>>
            /\ pc[c] = "fetch" => written[c] = Overridden(c)
            /\ pc[c] \in {"restore", "finish", "returned"} =>
                /\ Len(fetches[c]) = 1
                /\ fetches[c][1].kind =
                     IF args[c].url.isList /\ Len(args[c].url.urls) > 1
                     THEN "make_requests_concurrently" ELSE "make_request"
                /\ \A h \in Overridden(c) : fetches[c][1].headers[h] = GetItem(Dict(hdrs[c]), h)

\* a returned Request whose url was a list of one URL, with headers overridden
C12_Witness ==
    \E c \in Callers :
        /\ pc[c] = "returned"
        /\ args[c].fn = "Request"
        /\ args[c].url.isList
        /\ Len(args[c].url.urls) = 1
        /\ written[c] # {}
        /\ Len(fetches[c]) = 1
        /\ fetches[c][1].kind = "make_request"

\* what the batch response holds under URL u: {"response": content}
PageOf(response, u) ==
    LET j == CHOOSE j \in 1..Len(ValOf(response)) : HasKey(ValOf(response)[j], u)
    IN  GetItem(ValOf(response)[j], u)

\* the returned value holds each page under its URL
PairedByUrl(c) ==
    /\ TypeOf(ret[c]) = "list"
    /\ \A i \in 1..Len(args[c].url.urls) :
        LET u == args[c].url.urls[i]
        IN  \E j \in 1..Len(ValOf(ret[c])) :
                /\ TypeOf(ValOf(ret[c])[j]) = "dict"
                /\ HasKey(ValOf(ret[c])[j], u)
                /\ GetItem(ValOf(ret[c])[j], u) = deep_parse_json(PageOf(resp[c], u))

\* the returned value holds one result per URL, in the order of the url argument
PairedByPosition(c) ==
    /\ TypeOf(ret[c]) = "list"
    /\ Len(ValOf(ret[c])) = Len(args[c].url.urls)
    /\ \A i \in 1..Len(args[c].url.urls) :
        LET content == deep_parse_json(GetItem(PageOf(resp[c], args[c].url.urls[i]), K))
        IN  ValOf(ret[c])[i] \in {content, Entry(K, content)}

OwnAccept(c) == GetItem(Dict(hdrs[c]), "Accept")

\* C14: nothing orders the header reads and writes of one call against
\* another's: a call at a capture, an update, its fetch or a restore can
\* take that step wherever the other call stands.  The witness is the race:
\* a fetch issued under the other call's Accept, and the Accept, after both
\* calls returned, not what it was before either began.
C14_HeaderStepsUnsynchronised ==
    \A c \in Callers :
        /\ pc[c] = "capture" => ENABLED Capture(c)
        /\ pc[c] = "update" => ENABLED Update(c)
        /\ pc[c] = "fetch" => ENABLED (\E content \in RaceContents : FetchOne(c, content))
        /\ pc[c] = "restore" => ENABLED Restore(c)

\* both calls returned; one fetched under the other's Accept, and the
\* connection's Accept is not the one both calls began with
C14_Witness ==
    /\ \A c \in Callers : pc[c] = "returned"
    /\ pre[1] = pre[2]
    /\ conn_headers["Accept"] # pre[1]["Accept"]
    /\ \E c, d \in Callers :
        /\ c # d
        /\ OwnAccept(c) # OwnAccept(d)
        /\ Len(fetches[c]) = 1
        /\ fetches[c][1].headers["Accept"] = OwnAccept(d)

----------------------------------------------------------------------------
(* Claims about key_from_mapping *)

MapCalled == resolved # NotCalled

\* the input as it is compared: trimmed, in lower case
Trimmed == lower(strip(input_str))

KeyAt(i) == ValOf(mappings)[i][1]
ValueAt(i) == ValOf(mappings)[i][2]

\* the synonyms recorded under entry i: its display-name, or its list
SynonymsAt(i) ==
    IF TypeOf(ValueAt(i)) = "list"
    THEN {ValOf(ValueAt(i))[j] : j \in 1..Len(ValOf(ValueAt(i)))}
    ELSE {ValueAt(i)}

\* the entries whose canonical key, and whose synonyms, the input equals
KeyMatches == {i \in 1..Len(ValOf(mappings)) : lower(KeyAt(i)) = Trimmed}
SynMatches == {i \in 1..Len(ValOf(mappings)) : \E syn \in SynonymsAt(i) : lower(ValOf(syn)) = Trimmed}

First(S) == CHOOSE i \in S : \A j \in S : i <= j
Last(S) == CHOOSE i \in S : \A j \in S : i >= j

\* C15: the trimmed input is compared case-insensitively; when it equals a
\* canonical key the result is that key, also when it equals a synonym of
\* another key; otherwise when it equals a synonym the result is the
\* canonical key of an entry that records it; otherwise the result is None
C15_KeyBeforeSynonym ==
    MapCalled =>
        /\ KeyMatches # {} => \E i \in KeyMatches : resolved = Str(KeyAt(i))
        /\ (KeyMatches = {} /\ SynMatches # {}) => \E i \in SynMatches : resolved = Str(KeyAt(i))
        /\ (KeyMatches = {} /\ SynMatches = {}) => (resolved = Null /\ resolvedInv = Null)

\* an input that needs trimming and lowering, equal to a canonical key and
\* to a synonym recorded under another key
C15_Witness ==
    /\ MapCalled
    /\ strip(input_str) # input_str
    /\ Trimmed # strip(input_str)
    /\ KeyMatches # {}
    /\ SynMatches \ KeyMatches # {}
    /\ \E i \in KeyMatches : resolved = Str(KeyAt(i))

\* C16, as stated: a synonym recorded under two canonical keys resolves to
\* the key that comes earlier in the mapping
C16_EarlierKeyWins ==
    (MapCalled /\ KeyMatches = {} /\ Cardinality(SynMatches) >= 2) =>
        resolved = Str(KeyAt(First(SynMatches)))

\* C16, amended: a synonym recorded under two canonical keys, and equal to
\* no canonical key, resolves to the key that comes later in the mapping,
\* for both values of invert
C16_LaterKeyWins ==
    (MapCalled /\ KeyMatches = {} /\ Cardinality(SynMatches) >= 2) =>
        /\ resolved = Str(KeyAt(Last(SynMatches)))
        /\ resolvedInv = Str(KeyAt(Last(SynMatches)))

\* a synonym recorded under two keys, in different case, resolved to the later key
C16_Witness ==
    /\ MapCalled
    /\ KeyMatches = {}
    /\ Cardinality(SynMatches) = 2
    /\ SynonymsAt(First(SynMatches)) \cap SynonymsAt(Last(SynMatches)) = {}
    /\ resolved = Str(KeyAt(Last(SynMatches)))
    /\ resolved # Str(KeyAt(First(SynMatches)))

\* C17: when the input equals a canonical key the result is that key with
\* invert False and the value stored under it, a display-name or the whole
\* list of synonyms, with invert True; when it equals only a synonym the
\* result is the canonical key for both values of invert
C17_InvertGivesStoredValue ==
    MapCalled =>
        /\ KeyMatches # {} =>
            \E i \in KeyMatches :
                /\ resolved = Str(KeyAt(i))
                /\ resolvedInv = ValueAt(i)
                /\ resolvedInv = GetItem(mappings, ValOf(resolved))
        /\ (KeyMatches = {} /\ SynMatches # {}) =>
            /\ \E i \in SynMatches : resolved = Str(KeyAt(i))
            /\ resolvedInv = resolved

\* an input in another case than the canonical key it equals, whose stored
\* value is a list of two synonyms
C17_Witness ==
    /\ MapCalled
    /\ KeyMatches # {}
    /\ TypeOf(resolved) = "str"
    /\ ValOf(resolved) # strip(input_str)
    /\ TypeOf(resolvedInv) = "list"
    /\ Len(ValOf(resolvedInv)) = 2

----------------------------------------------------------------------------
(* Claims about nested matches and undecodable strings *)

\* C18: an occurrence of target_key inside a matched value, and one inside a
\* serialized string at any depth, is a match of its own: the results are
\* as many as the mappings holding target_key in the fully decoded tree, and
\* normalize_response gives for the payload what it gives for the payload
\* deep-parsed
C18_NestedMatchesCollected ==
    Extracting =>
        /\ Count # 1 => (TypeOf(result) = "list" /\ Len(ValOf(result)) = Count)
        /\ Count # 1 => (TypeOf(resultKS) = "list" /\ Len(ValOf(resultKS)) = Count)
        /\ result = normalize_response(deep_parse_json(payload), target_key, FALSE, FALSE)
        /\ resultKS = normalize_response(deep_parse_json(payload), target_key, FALSE, TRUE)

\* a string json.loads rejects
Undecodable(x) == TypeOf(x) = "str" /\ ~JsonLoads(ValOf(x)).ok

----------------------------------------------------------------------------
(* Claims about UserAgentRandomizer *)

\* the last n items of a sequence
LastN(q, n) == IF Len(q) <= n THEN q ELSE SubSeq(q, Len(q) - n + 1, Len(q))

\* C20: after any calls of get_random_user_agent recent_selections holds the
\* most recent selections in call order, five at most, and no user agent
\* more than three times
C20_RecentSelections ==
    /\ recent_selections = LastN(selections, 5)
    /\ Len(recent_selections) <= 5
    /\ \A ua \in Agents : count(recent_selections, ua) <= 3

\* more than five calls made, the configuration changed between them, and
\* one user agent three times among the last five
C20_Witness ==
    /\ Len(selections) > 5
    /\ Len(recent_selections) = 5
    /\ \E ua \in Agents : count(recent_selections, ua) = 3
    /\ \E ua \in Agents : count(selections, ua) > 3
    /\ \E i \in 1..Len(selections) : selections[i] \notin user_agents

----------------------------------------------------------------------------
(* Claims about the base URL and the caller's headers_to_update *)

\* C21: when Request takes the single fetch, the connection's base URL at
\* make_request is the URL Request was given, as a string and as a list of
\* one URL
C21_BaseUrlIsTheUrlGiven ==
    \A c \in Callers :
        (args[c].fn = "Request" /\ Len(args[c].url.urls) = 1) =>
            \A i \in 1..Len(fetches[c]) :
                fetches[c][i].kind = "make_request" => fetches[c][i].url = args[c].url.urls[1]

\* C22: the mapping object the caller passed as headers_to_update has after
\* the call the entries it had before it
C22_CallerHeadersUnchanged ==
    \A c \in Callers :
        (args[c].fn = "Request" /\ args[c].headers_to_update.given /\ pc[c] = "returned") =>
            hdrs[c] = args[c].headers_to_update.items

----------------------------------------------------------------------------
(* Claims about the redraw loop of get_random_user_agent *)

\* C23: with a fair random choice every call of get_random_user_agent that
\* drew from a non-empty pool returns: the redraw loop ends
C23_EveryCallReturns == (ua_pc = "loop") ~> (ua_pc = "idle")

----------------------------------------------------------------------------
(* Claims about InflationCalculatorApp *)

\* C24: whatever the interleaving of __init__ with the monitor thread, the
\* thread does not read previous_screen_width or previous_screen_height
\* before they exist, and no resolution is enqueued twice in a row (the
\* None of lines 44-45 erases nothing the thread recorded)
C24_ConstructionRaceFree ==
    /\ mon_pc # "AttributeError"
    /\ \A i \in 1..(Len(puts) - 1) : puts[i] # puts[i + 1]

\* C27: once on_closing has set running to False the window is destroyed,
\* and from then on process_queue applies no queued resolution and does not
\* schedule itself again
C27_ShutdownCompletes ==
    /\ (running = FALSE) ~> (gui_pc = "destroyed")
    /\ [][running = FALSE => (applied' = applied /\ (scheduled' => scheduled))]_vars

----------------------------------------------------------------------------
(* Claims about resolving the result of key_from_mapping again *)

\* the call with invert=False gave a key K, and K was resolved again
ResolvedTwice == resolved # NotCalled /\ resolved # Null /\ resolvedAgain # NotCalled

ResultIsKey == \E i \in 1..Len(ValOf(mappings)) : KeyAt(i) = ValOf(resolved)

\* the entries whose canonical key equals the result K when case is ignored
SameKeyIgnoringCase == {i \in 1..Len(ValOf(mappings)) : lower(KeyAt(i)) = lower(ValOf(resolved))}

\* K has no surrounding whitespace, and no later canonical key equals it
\* when case is ignored
PlainLastKey ==
    /\ strip(ValOf(resolved)) = ValOf(resolved)
    /\ KeyAt(Last(SameKeyIgnoringCase)) = ValOf(resolved)

----------------------------------------------------------------------------
(* Claims about fix_versions.main *)

ProducedVersion(n) == futures[n] \in Versions

FixEnded == fix_pc \in {"returned", "raised"}

\* C26: the replacements are applied only when the three fetches produced a
\* version, and then all three are; when a fetch raised or gave no version
\* none is applied; when the config is not outdated nothing is fetched and
\* nothing is replaced
C26_UpdateAllOrNothing ==
    /\ altered # <<>> => \A i \in 1..Len(Browsers) : ProducedVersion(Browsers[i])
    /\ FixEnded => Len(altered) \in {0, Len(Browsers)}
    /\ ~outdated => (altered = <<>> /\ \A i \in 1..Len(Browsers) : futures[Browsers[i]] = "unset")

====
